---- MODULE Spec2Model ----
(***************************************************************************)
(* Pantry inventory: the entry store (MongoDB collection behind the        *)
(* PantryEntry mongoose model) and the three route handlers that use it,   *)
(* GET /api/pantry, POST /api/pantry and DELETE /api/pantry/:id.           *)
(*                                                                         *)
(* JavaScript values are tagged tuples: <<"undefined">>, <<"null">>,       *)
(* <<"boolean", b>>, <<"number", class, tenths>>, <<"string", rep, s>> and *)
(* <<"date", class, ordinal>>.  A finite number is kept in tenths (2.5 is  *)
(* 25).  A string the code trims or parses is a sequence of one-character  *)
(* strings (rep "chars"); a non-empty string the code only compares is a   *)
(* TLA+ string (rep "atom").  A valid date is kept as the ordinal          *)
(* year * 10000 + month * 100 + day, which orders as the time value does.  *)
(***************************************************************************)
EXTENDS Integers, Sequences, FiniteSets, Bags, TLC

VARIABLES
  store,      \* the PantryEntry collection: ObjectId -> document
  reqs,       \* the bag of requests suspended at their store call
  now,        \* the clock the store stamps createdAt and updatedAt with
  last,       \* the response being returned, with its request (<<>> when none is)
  okCount,    \* history: per ObjectId, the number of DELETE responses { ok: true }
  submitted,  \* history: per ObjectId of an entry created with every optional field
              \* supplied, the body it was created from
  state,      \* the pantry page: its LoadState
  sortOption, \* the pantry page: the sort option in force
  groups,     \* the pantry page: the two ordered groups it shows (the useMemo value)
  loads,      \* the pantry page: the calls of load() awaiting their response, in the
              \* order they were made
  latest,     \* history: the load state set by the most recent call of load(), in a
              \* one-element sequence (<<>> while that call has not completed)
  mounted,    \* the pantry page: its mount effect has run
  deleting,   \* the pantry page: the ids of the entries whose DELETE is in flight
  cookie,     \* the session cookie of the browser
  mongooseConn, \* global.mongooseConn: conn and promise, 0 for null
  promises,   \* the promises mongoose.connect has returned, in order, each with
              \* its state; the k-th resolves to connection k
  calls       \* the calls of connectDB: where each is, the promise it awaits or
              \* awaited (0 for none) and the connection it returned

\* the route handlers and the store
serverVars == <<store, reqs, now, last, okCount, submitted>>

\* the pantry page in the browser: what it shows, and its requests
pageVars == <<state, sortOption, groups>>
loadVars == <<loads, latest, mounted, deleting, cookie>>
clientVars == <<pageVars, loadVars>>

\* the cached database connection of the server process
dbVars == <<mongooseConn, promises, calls>>

vars == <<serverVars, clientVars, dbVars>>

(* ---------------------------- bounds ----------------------------------- *)

\* MaxEntries: entries the store holds; MaxReqs: requests in flight at once in
\* the concurrent specification; MaxClock: ticks of the clock

MaxEntries == 2
MaxReqs == 3
MaxClock == 1

\* MaxItems: items in a list the page orders

MaxItems == 3

\* MaxLoads: calls of load() awaiting their response at once

MaxLoads == 2

\* MaxCalls: calls of connectDB in one server process

MaxCalls == 4

(* ------------------------- JavaScript values --------------------------- *)

Undefined == <<"undefined">>
Null == <<"null">>
Bool(b) == <<"boolean", b>>
Str(s) == <<"string", "atom", s>>
Chars(c) == <<"string", "chars", c>>
Num(t) == <<"number", "finite", t>>
NaN == <<"number", "NaN", 0>>
PosInfinity == <<"number", "Infinity", 0>>
NegInfinity == <<"number", "-Infinity", 0>>
DateVal(d) == <<"date", "valid", d>>
InvalidDate == <<"date", "invalid", 0>>

TypeOf(v) == v[1]

\* JavaScript truthiness of a value (the operand of `!v`).
Truthy(v) ==
  CASE TypeOf(v) = "undefined" -> FALSE
    [] TypeOf(v) = "null" -> FALSE
    [] TypeOf(v) = "boolean" -> v[2]
    [] TypeOf(v) = "number" -> ~(v[2] = "NaN" \/ (v[2] = "finite" /\ v[3] = 0))
    [] TypeOf(v) = "string" -> ~(v[2] = "chars" /\ v[3] = <<>>)
    [] OTHER -> TRUE

\* Number.isFinite
IsFiniteNumber(v) == TypeOf(v) = "number" /\ v[2] = "finite"

\* v <= 0 on numbers (false for NaN)
NumberLeqZero(v) ==
  \/ v[2] = "-Infinity"
  \/ v[2] = "finite" /\ v[3] <= 0

(* ---------------------- String operations ------------------------------ *)

WhiteSpace == {" ", "\t", "\n"}
DigitChars == <<"0", "1", "2", "3", "4", "5", "6", "7", "8", "9">>

RECURSIVE TrimStart(_)
TrimStart(s) ==
  IF s # <<>> /\ Head(s) \in WhiteSpace THEN TrimStart(Tail(s)) ELSE s

RECURSIVE TrimEnd(_)
TrimEnd(s) ==
  IF s # <<>> /\ s[Len(s)] \in WhiteSpace THEN TrimEnd(SubSeq(s, 1, Len(s) - 1)) ELSE s

\* String.prototype.trim
Trim(s) == TrimEnd(TrimStart(s))

IsDigit(c) == \E i \in 1..10 : DigitChars[i] = c
DigitVal(c) == (CHOOSE i \in 1..10 : DigitChars[i] = c) - 1
AllDigits(s) == \A i \in 1..Len(s) : IsDigit(s[i])

RECURSIVE DigitsVal(_)
DigitsVal(s) ==
  IF s = <<>> THEN 0 ELSE DigitsVal(SubSeq(s, 1, Len(s) - 1)) * 10 + DigitVal(s[Len(s)])

DotIndex(s) ==
  IF \E i \in 1..Len(s) : s[i] = "."
  THEN CHOOSE i \in 1..Len(s) : s[i] = "." /\ \A j \in 1..(i - 1) : s[j] # "."
  ELSE 0

IntPart(s) == IF DotIndex(s) = 0 THEN s ELSE SubSeq(s, 1, DotIndex(s) - 1)
FracPart(s) == IF DotIndex(s) = 0 THEN <<>> ELSE SubSeq(s, DotIndex(s) + 1, Len(s))

\* StrUnsignedDecimalLiteral without exponent: digits, digits.digits, .digits
IsUnsignedDecimal(s) ==
  /\ AllDigits(IntPart(s))
  /\ AllDigits(FracPart(s))
  /\ Len(IntPart(s)) + Len(FracPart(s)) > 0

\* value in tenths; the strings of the model carry at most one fraction digit
UnsignedDecimalTenths(s) ==
  DigitsVal(IntPart(s)) * 10 + (IF FracPart(s) = <<>> THEN 0 ELSE DigitVal(FracPart(s)[1]))

InfinityChars == <<"I", "n", "f", "i", "n", "i", "t", "y">>

\* StringToNumber of ECMAScript (decimal literals without exponent)
StringToNumber(s) ==
  LET t == Trim(s)
      neg == t # <<>> /\ t[1] = "-"
      u == IF t # <<>> /\ t[1] \in {"+", "-"} THEN Tail(t) ELSE t
  IN  IF t = <<>> THEN Num(0)
      ELSE IF u = InfinityChars THEN (IF neg THEN NegInfinity ELSE PosInfinity)
      ELSE IF IsUnsignedDecimal(u)
           THEN Num(IF neg THEN 0 - UnsignedDecimalTenths(u) ELSE UnsignedDecimalTenths(u))
           ELSE NaN

\* Number(v)
ToNumber(v) ==
  CASE TypeOf(v) = "undefined" -> NaN
    [] TypeOf(v) = "null" -> Num(0)
    [] TypeOf(v) = "boolean" -> (IF v[2] THEN Num(10) ELSE Num(0))
    [] TypeOf(v) = "number" -> v
    [] TypeOf(v) = "string" -> (IF v[2] = "chars" THEN StringToNumber(v[3]) ELSE NaN)

\* body?.name?.toString().trim()
TrimmedName(v) ==
  IF TypeOf(v) \in {"undefined", "null"} THEN Undefined ELSE Chars(Trim(v[3]))

(* --------------------------- Dates ------------------------------------- *)

\* Date.parse of a date-only ISO string YYYY-MM-DD; anything else is invalid
IsIsoDate(s) ==
  /\ Len(s) = 10
  /\ s[5] = "-" /\ s[8] = "-"
  /\ AllDigits(SubSeq(s, 1, 4)) /\ AllDigits(SubSeq(s, 6, 7)) /\ AllDigits(SubSeq(s, 9, 10))
  /\ DigitsVal(SubSeq(s, 6, 7)) \in 1..12
  /\ DigitsVal(SubSeq(s, 9, 10)) \in 1..28

IsoOrdinal(s) ==
  DigitsVal(SubSeq(s, 1, 4)) * 10000 + DigitsVal(SubSeq(s, 6, 7)) * 100
    + DigitsVal(SubSeq(s, 9, 10))

\* new Date(String(v)) for a string v
NewDate(v) ==
  IF TypeOf(v) = "string" /\ v[2] = "chars" /\ IsIsoDate(v[3])
  THEN DateVal(IsoOrdinal(v[3]))
  ELSE InvalidDate

toDateOrNull_NoNaNCheck(v) == IF ~Truthy(v) THEN Null ELSE NewDate(v)

toDateOrNull(v) ==
  IF ~Truthy(v) THEN Null
  ELSE IF NewDate(v)[2] = "invalid" THEN Null ELSE NewDate(v)

\* x ?? undefined
NullishToUndefined(v) == IF TypeOf(v) \in {"null", "undefined"} THEN Undefined ELSE v

(* ----------------------- Domain vocabulary ----------------------------- *)

PANTRY_UNITS == <<"count", "g", "oz", "ml">>
PANTRY_STATUSES == <<"ACTIVE", "CONSUMED", "DISCARDED">>
DATE_LABEL_TYPES ==
  <<"best_if_used_by", "best_before", "use_by", "sell_by", "expiration_date", "not_sure">>

Includes(list, s) == \E i \in 1..Len(list) : list[i] = s

isPantryUnit(v) == TypeOf(v) = "string" /\ v[2] = "atom" /\ Includes(PANTRY_UNITS, v[3])
isPantryStatus(v) == TypeOf(v) = "string" /\ v[2] = "atom" /\ Includes(PANTRY_STATUSES, v[3])
isDateLabelType(v) == TypeOf(v) = "string" /\ v[2] = "atom" /\ Includes(DATE_LABEL_TYPES, v[3])

ACTIVE == Str("ACTIVE")
CONSUMED == Str("CONSUMED")
DISCARDED == Str("DISCARDED")

(* --------------------------- Authenticator ----------------------------- *)

\* a session cookie: absent, or a token string carrying a JWT
Jwt(verifies, sub, email) == <<"jwt", verifies, sub, email>>
AuthOf(userId, email) == <<"auth", userId, email>>

getAuth_NoEmailCheck(token) ==
  IF ~Truthy(token) THEN Null
  ELSE IF ~token[2] THEN Null
  ELSE IF TypeOf(token[3]) # "string" THEN Null ELSE AuthOf(token[3][3], "")

\* the identity resolved from the session cookie, or Null
getAuth(token) ==
  IF ~Truthy(token) THEN Null
  ELSE IF ~token[2] THEN Null
  ELSE LET userId == IF TypeOf(token[3]) = "string" THEN token[3] ELSE Null
           email == IF TypeOf(token[4]) = "string" THEN token[4] ELSE Null
       IN  IF ~Truthy(userId) \/ ~Truthy(email) THEN Null ELSE AuthOf(userId[3], email[3])

(* --------------------------- Entry store -------------------------------- *)

\* a well-formed path identifier denotes the ObjectId n
Oid(n) == <<"oid", n>>
isValidObjectId(id) == TypeOf(id) = "oid"

Matches_IgnoresOwner(doc, filter) == \A k \in DOMAIN filter \ {"userId"} : doc[k] = filter[k]

\* a document matches a query filter when it agrees on every field of the filter
Matches(doc, filter) == \A k \in DOMAIN filter : doc[k] = filter[k]

\* Model.find(filter): the ids of the matching documents
Find(s, filter) == {i \in DOMAIN s : Matches(s[i], filter)}

\* null and missing values sort before every date, as in a MongoDB ascending sort
DateKey(v) == IF TypeOf(v) = "date" THEN v[3] ELSE 0 - 1

\* sort({ dateOnPackage: 1, createdAt: -1 }): a must not come after b
SortBefore(a, b) ==
  \/ DateKey(a.dateOnPackage) < DateKey(b.dateOnPackage)
  \/ DateKey(a.dateOnPackage) = DateKey(b.dateOnPackage) /\ a.createdAt >= b.createdAt

\* the orders in which find(filter).sort(...) may return the matching documents;
\* the order of documents that tie on both sort keys is not determined
FindSorted(s, filter) ==
  LET ids == Find(s, filter)
      n == Cardinality(ids)
  IN  {[k \in 1..n |-> s[p[k]]] : p \in
         {q \in [1..n -> ids] :
            /\ \A i, j \in 1..n : i # j => q[i] # q[j]
            /\ \A i, j \in 1..n : i < j => SortBefore(s[q[i]], s[q[j]])}}

ApplySet_TouchesCreatedAt(doc, status, t) ==
  [doc EXCEPT !.status = status, !.updatedAt = t, !.createdAt = t]

\* $set of the update, with the updatedAt timestamp of { timestamps: true }
ApplySet(doc, status, t) == [doc EXCEPT !.status = status, !.updatedAt = t]

StoreAfterUpdate_Remove(s, i, status, t) == [j \in DOMAIN s \ {i} |-> s[j]]

\* the store after updating document i
StoreAfterUpdate(s, i, status, t) == [s EXCEPT ![i] = ApplySet(s[i], status, t)]

\* Model.findOneAndUpdate(filter, { $set: { status } }, { new: true }): one atomic
\* store operation; docs is the updated document, or empty when none matched
findOneAndUpdate(s, filter, status, t) ==
  IF Find(s, filter) = {}
  THEN [store |-> s, docs |-> <<>>]
  ELSE LET i == CHOOSE j \in Find(s, filter) : \A k \in Find(s, filter) : j <= k
       IN  [store |-> StoreAfterUpdate(s, i, status, t),
            docs |-> <<ApplySet(s[i], status, t)>>]

\* validators of PantryEntrySchema
SchemaValid(doc) ==
  /\ doc.userId # ""
  /\ TypeOf(doc.name) = "string" /\ Truthy(doc.name)
  /\ TypeOf(doc.quantity) = "number" /\ doc.quantity[2] # "NaN"
  /\ ~(doc.quantity[2] = "-Infinity" \/ (doc.quantity[2] = "finite" /\ doc.quantity[3] < 0))
  /\ isPantryUnit(doc.unit)
  /\ (TypeOf(doc.dateLabelType) = "undefined" \/ isDateLabelType(doc.dateLabelType))
  /\ isPantryStatus(doc.status)

NewId_Reuse(s) == IF DOMAIN s = {} THEN 1 ELSE Cardinality(DOMAIN s)

\* the ObjectId given to a new document
NewId(s) == Cardinality(DOMAIN s) + 1

\* the defaults of PantryEntrySchema: a status that is not given is ACTIVE
WithDefaults(doc) == [doc EXCEPT !.status = IF doc.status = Undefined THEN ACTIVE ELSE @]

\* Model.create(doc): applies the defaults, validates, then inserts with a new _id
\* and the timestamps
create(s, doc0, t) ==
  IF ~SchemaValid(WithDefaults(doc0))
  THEN [store |-> s, docs |-> <<>>]
  ELSE LET doc == WithDefaults(doc0)
           d == [_id |-> NewId(s), userId |-> doc.userId, name |-> doc.name,
                 quantity |-> doc.quantity, unit |-> doc.unit,
                 purchaseDate |-> doc.purchaseDate, dateLabelType |-> doc.dateLabelType,
                 dateOnPackage |-> doc.dateOnPackage, status |-> doc.status,
                 createdAt |-> t, updatedAt |-> t]
       IN  [store |-> [i \in DOMAIN s \cup {NewId(s)} |-> IF i \in DOMAIN s THEN s[i] ELSE d],
            docs |-> <<d>>]

(* --------------------------- Requests ----------------------------------- *)

Users == {"u1", "u2"}
EmailOf(u) == Str("mail")
TokenOf(u) == Jwt(TRUE, Str(u), EmailOf(u))

\* session cookies of the concurrent specification: none, or a verified token
Tokens == {Undefined} \cup {TokenOf(u) : u \in Users}

\* every kind of session cookie: none, empty, a verified token of each user, a token
\* that fails verification, and verified tokens lacking sub or email
AllTokens ==
  Tokens \cup {Chars(<<>>),
               Jwt(FALSE, Str("u1"), EmailOf("u1")),
               Jwt(TRUE, Undefined, EmailOf("u1")),
               Jwt(TRUE, Str("u1"), Undefined)}

\* path identifiers: well-formed ids (one more than the store can hold) and a malformed one
PathIds == {Oid(n) : n \in 1..(MaxEntries + 1)} \cup {Str("abc")}

BaseBody ==
  [name |-> Chars(<<" ", "a">>), quantity |-> Num(25), unit |-> Str("g"),
   purchaseDate |-> Undefined, dateLabelType |-> Undefined, dateOnPackage |-> Undefined,
   status |-> Undefined, userId |-> Undefined]

\* {} and a body that is not JSON (body is null) read the same through `body?.`
EmptyBody ==
  [name |-> Undefined, quantity |-> Undefined, unit |-> Undefined,
   purchaseDate |-> Undefined, dateLabelType |-> Undefined, dateOnPackage |-> Undefined,
   status |-> Undefined, userId |-> Undefined]

IsoDay10 == Chars(<<"2", "0", "2", "6", "-", "0", "1", "-", "1", "0">>)
NotADate == Chars(<<"n", "o", "t", "-", "a", "-", "d", "a", "t", "e">>)

FullBody ==
  [BaseBody EXCEPT !.unit = Str("count"),
                   !.purchaseDate = IsoDay10, !.dateLabelType = Str("use_by"),
                   !.dateOnPackage = IsoDay10, !.status = Str("CONSUMED"),
                   !.userId = Str("u2")]

Quantities ==
  {Num(0), Num(0 - 30), Num(25), NaN, PosInfinity, NegInfinity, Undefined, Null,
   Bool(FALSE), Chars(<<"a", "b", "c">>), Chars(<<"2", ".", "5">>), Chars(<<>>),
   Chars(<<"-", "3">>), Chars(<<" ", "2", ".", "5", " ">>), Chars(<<"0", ".", "0">>),
   Chars(InfinityChars)}

\* the request bodies of the concurrent specification
Bodies == {BaseBody, [BaseBody EXCEPT !.quantity = Num(0)]}

\* the request bodies of the sequential specification: the base body, the body with
\* every field populated, the base body with one field changed, and bodies with two
\* invalid fields
AllBodies ==
  {BaseBody, EmptyBody, FullBody}
    \cup {[BaseBody EXCEPT !.quantity = q] : q \in Quantities}
    \cup {[FullBody EXCEPT !.quantity = q] : q \in {Num(0), NaN}}
    \cup {[BaseBody EXCEPT !.name = n] : n \in {Undefined, Null, Chars(<<" ">>), Chars(<<>>)}}
    \cup {[BaseBody EXCEPT !.unit = u] : u \in {Str("kg"), Chars(<<>>), Num(10), Undefined}}
    \cup {[BaseBody EXCEPT !.dateLabelType = d] :
            d \in {Str("bogus"), Chars(<<>>), Null, Num(10)}}
    \cup {[BaseBody EXCEPT !.dateOnPackage = d] :
            d \in {NotADate, Chars(<<>>), Null, Bool(FALSE)}}
    \cup {[BaseBody EXCEPT !.purchaseDate = d] : d \in {NotADate, Chars(<<>>)}}
    \cup {[BaseBody EXCEPT !.status = st] : st \in {Str("DISCARDED"), Str("bogus")}}
    \cup {[BaseBody EXCEPT !.name = Chars(<<>>), !.quantity = Num(0)],
          [BaseBody EXCEPT !.quantity = Num(0), !.unit = Str("kg")],
          [BaseBody EXCEPT !.quantity = Chars(<<"a", "b", "c">>), !.dateLabelType = Str("bogus")],
          [BaseBody EXCEPT !.unit = Str("kg"), !.dateLabelType = Str("bogus")]}

\* the creates of the sequential specification: every body from one user, and the
\* base body, the empty body and a body with the quantity 0 under every cookie
SeqInputs ==
  ({TokenOf("u1")} \X AllBodies)
    \cup (AllTokens \X {BaseBody, EmptyBody, [BaseBody EXCEPT !.quantity = Num(0)]})

(* --------------------- the pantry page: ordering ------------------------ *)

\* A date-time of a JSON response is an ISO 8601 string, kept as
\* <<"string", "iso", t>> with t its time value.
Iso(t) == <<"string", "iso", t>>

\* new Date(v).getTime() of an ISO string or of a number
GetTime(v) ==
  CASE TypeOf(v) = "string" /\ v[2] = "iso" -> v[3]
    [] TypeOf(v) = "number" /\ v[2] = "finite" -> v[3] \div 10

\* v ?? d
NullishOr(v, d) == IF TypeOf(v) \in {"undefined", "null"} THEN d ELSE v

LowerCase ==
  <<"a", "b", "c", "d", "e", "f", "g", "h", "i", "j", "k", "l", "m",
    "n", "o", "p", "q", "r", "s", "t", "u", "v", "w", "x", "y", "z">>

UpperCase ==
  <<"A", "B", "C", "D", "E", "F", "G", "H", "I", "J", "K", "L", "M",
    "N", "O", "P", "Q", "R", "S", "T", "U", "V", "W", "X", "Y", "Z">>

\* the base letter of a character: its primary collation weight
PrimaryWeight(c) == CHOOSE k \in 1..26 : LowerCase[k] = c \/ UpperCase[k] = c

\* the UTF-16 code unit of a letter
CodeUnit(c) ==
  IF \E k \in 1..26 : UpperCase[k] = c
  THEN 64 + PrimaryWeight(c)
  ELSE 96 + PrimaryWeight(c)

RECURSIVE CompareBy(_, _, _)
\* the sign of the first difference of two character sequences under a weight
\* (1 the primary weight, 2 the code unit), a proper prefix coming first
CompareBy(w, s, t) ==
  IF s = <<>> THEN (IF t = <<>> THEN 0 ELSE 0 - 1)
  ELSE IF t = <<>> THEN 1
  ELSE LET x == IF w = 1 THEN PrimaryWeight(Head(s)) ELSE CodeUnit(Head(s))
           y == IF w = 1 THEN PrimaryWeight(Head(t)) ELSE CodeUnit(Head(t))
       IN  IF x < y THEN 0 - 1
           ELSE IF x > y THEN 1
           ELSE CompareBy(w, Tail(s), Tail(t))

localeCompare_CodeUnits(a, b) == CompareBy(2, a[3], b[3])

\* a.localeCompare(b, undefined, { sensitivity: "base" }): letters that differ
\* only in case compare equal
localeCompare(a, b) == CompareBy(1, a[3], b[3])

PANTRY_SORT_OPTIONS ==
  <<"packageDateNewest", "packageDateOldest", "addedDateNewest", "addedDateOldest",
    "nameAZ", "nameZA">>

DEFAULT_PANTRY_SORT == PANTRY_SORT_OPTIONS[1]

ByPackageDateDesc_Ascending(a, b) == GetTime(a.dateOnPackage) - GetTime(b.dateOnPackage)

\* the comparators sortBasedOnOption returns
ByPackageDateDesc(a, b) == GetTime(b.dateOnPackage) - GetTime(a.dateOnPackage)

ByPackageDateAsc(a, b) == GetTime(a.dateOnPackage) - GetTime(b.dateOnPackage)

ByCreatedAtDesc(a, b) ==
  GetTime(NullishOr(b.createdAt, Num(0))) - GetTime(NullishOr(a.createdAt, Num(0)))

ByCreatedAtAsc_Descending(a, b) ==
  GetTime(NullishOr(b.createdAt, Num(0))) - GetTime(NullishOr(a.createdAt, Num(0)))

ByCreatedAtAsc(a, b) ==
  GetTime(NullishOr(a.createdAt, Num(0))) - GetTime(NullishOr(b.createdAt, Num(0)))

ByNameAsc(a, b) == localeCompare(a.name, b.name)

ByNameDesc(a, b) == localeCompare(b.name, a.name)

sortBasedOnOption_UndatedByName(option, hasDate, a, b) ==
  CASE option = "packageDateNewest" ->
         IF hasDate THEN ByPackageDateDesc(a, b) ELSE ByNameAsc(a, b)
    [] option = "packageDateOldest" ->
         IF hasDate THEN ByPackageDateAsc(a, b) ELSE ByNameAsc(a, b)
    [] option = "addedDateNewest" -> ByCreatedAtDesc(a, b)
    [] option = "addedDateOldest" -> ByCreatedAtAsc(a, b)
    [] option = "nameAZ" -> ByNameAsc(a, b)
    [] option = "nameZA" -> ByNameDesc(a, b)
    [] OTHER -> ByCreatedAtDesc(a, b)

sortBasedOnOption_DefaultOldest(option, hasDate, a, b) ==
  CASE option = "packageDateNewest" ->
         IF hasDate THEN ByPackageDateDesc(a, b) ELSE ByCreatedAtDesc(a, b)
    [] option = "packageDateOldest" ->
         IF hasDate THEN ByPackageDateAsc(a, b) ELSE ByCreatedAtAsc(a, b)
    [] option = "addedDateNewest" -> ByCreatedAtDesc(a, b)
    [] option = "addedDateOldest" -> ByCreatedAtAsc(a, b)
    [] option = "nameAZ" -> ByNameAsc(a, b)
    [] option = "nameZA" -> ByNameDesc(a, b)
    [] OTHER -> ByCreatedAtAsc(a, b)

\* sortBasedOnOption(option, hasDate)(a, b): the comparator applied to a pair
sortBasedOnOption(option, hasDate, a, b) ==
  CASE option = "packageDateNewest" ->
         IF hasDate THEN ByPackageDateDesc(a, b) ELSE ByCreatedAtDesc(a, b)
    [] option = "packageDateOldest" ->
         IF hasDate THEN ByPackageDateAsc(a, b) ELSE ByCreatedAtAsc(a, b)
    [] option = "addedDateNewest" -> ByCreatedAtDesc(a, b)
    [] option = "addedDateOldest" -> ByCreatedAtAsc(a, b)
    [] option = "nameAZ" -> ByNameAsc(a, b)
    [] option = "nameZA" -> ByNameDesc(a, b)
    [] OTHER -> ByCreatedAtDesc(a, b)

RECURSIVE Insert_BeforeEquals(_, _, _, _)
Insert_BeforeEquals(option, hasDate, x, s) ==
  IF s = <<>> THEN <<x>>
  ELSE IF sortBasedOnOption(option, hasDate, Head(s), x) >= 0 THEN <<x>> \o s
  ELSE <<Head(s)>> \o Insert_BeforeEquals(option, hasDate, x, Tail(s))

RECURSIVE Insert(_, _, _, _)
\* x placed in the sorted s before the first element the comparator puts after it
Insert(option, hasDate, x, s) ==
  IF s = <<>> THEN <<x>>
  ELSE IF sortBasedOnOption(option, hasDate, Head(s), x) > 0 THEN <<x>> \o s
  ELSE <<Head(s)>> \o Insert(option, hasDate, x, Tail(s))

Sort_Unsorted(option, hasDate, s) == s

RECURSIVE Sort(_, _, _)
\* Array.prototype.sort with the comparator of the option: a stable sort
Sort(option, hasDate, s) ==
  IF s = <<>> THEN <<>>
  ELSE Insert(option, hasDate, s[Len(s)],
              Sort(option, hasDate, SubSeq(s, 1, Len(s) - 1)))

HasPackageDate_OrLabel(i) == Truthy(i.dateOnPackage) \/ Truthy(i.dateLabelType)

\* Boolean(i.dateOnPackage)
HasPackageDate(i) == Truthy(i.dateOnPackage)

HasNoPackageDate(i) == ~HasPackageDate(i)

\* the two groups of the page for a list of items and a sort option
Ordering(items, option) ==
  [withDate |-> Sort(option, TRUE, SelectSeq(items, HasPackageDate)),
   noDate |-> Sort(option, FALSE, SelectSeq(items, HasNoPackageDate))]

Loading == [status |-> "loading", message |-> "", items |-> <<>>]
Ready(items) == [status |-> "ready", message |-> "", items |-> items]
Failed(message) == [status |-> "error", message |-> message, items |-> <<>>]

\* the useMemo value of a load state and a sort option
Memo(st, option) == Ordering(IF st.status = "ready" THEN st.items ELSE <<>>, option)

\* the page as it mounts
PageInit ==
  /\ state = Loading
  /\ sortOption = DEFAULT_PANTRY_SORT
  /\ groups = Memo(Loading, DEFAULT_PANTRY_SORT)
  /\ loads = <<>>
  /\ latest = <<>>
  /\ mounted = FALSE
  /\ deleting = {}
  /\ cookie = TokenOf("u1")

PantryItem(id, name, label, onPackage, created) ==
  [_id |-> id, name |-> Chars(name), quantity |-> Num(10), unit |-> Str("g"),
   dateLabelType |-> label, dateOnPackage |-> onPackage, createdAt |-> created]

\* the items the ordering is applied to: three with a date on the package and
\* three without, with names that differ only in case, equal dates on the
\* package and equal creation times among them
ItemPool ==
  {PantryItem("e1", <<"B", "a", "n", "a", "n", "a">>, Str("use_by"), Iso(10), Iso(1)),
   PantryItem("e2", <<"a", "p", "p", "l", "e">>, Undefined, Iso(5), Iso(2)),
   PantryItem("e3", <<"A", "p", "p", "l", "e">>, Str("best_before"), Iso(5), Iso(2)),
   PantryItem("e4", <<"b", "a", "n", "a", "n", "a">>, Str("best_before"), Undefined, Iso(1)),
   PantryItem("e5", <<"a", "p", "p", "l", "e">>, Undefined, Undefined, Iso(3)),
   PantryItem("e6", <<"A", "p", "p", "l", "e">>, Str("use_by"), Undefined, Iso(3))}

\* the lists of up to MaxItems distinct items, in every order
ItemLists ==
  UNION {{s \in [1..n -> ItemPool] : \A i, j \in 1..n : i # j => s[i] # s[j]} :
           n \in 0..MaxItems}

\* the sort options: the six of the vocabulary and one outside it
SortInputs == {PANTRY_SORT_OPTIONS[k] : k \in 1..6} \cup {"bogus"}

(* ------------------------- requests ------------------------------------ *)

Request(method, token, id, body) ==
  [method |-> method, token |-> token, id |-> id, body |-> body]

Response(status, error, ok, items) ==
  [status |-> status, error |-> error, ok |-> ok, items |-> items]

Unauthorized == Response(401, "Unauthorized", FALSE, <<>>)

\* the server as it starts: an empty collection, no request in flight
ServerInit ==
  /\ store = <<>>
  /\ reqs = EmptyBag
  /\ now = 0
  /\ last = <<>>
  /\ okCount = [n \in 1..(MaxEntries + 1) |-> 0]
  /\ submitted = <<>>

\* the server process as it starts: global.mongooseConn ||= { conn: null, promise: null }
DbInit ==
  /\ mongooseConn = [conn |-> 0, promise |-> 0]
  /\ promises = <<>>
  /\ calls = [c \in 1..MaxCalls |-> [pc |-> "idle", awaits |-> 0, result |-> 0]]

Init ==
  /\ ServerInit
  /\ PageInit
  /\ DbInit

\* the handler of q is suspended at its store call
Suspend(q) == reqs' = reqs (+) SetToBag({q}) /\ last' = last

\* the handler of q resumes from its store call
Resume(q) == reqs' = reqs (-) SetToBag({q})

\* the handler of q returns the response res
Respond(q, res) == last' = <<[req |-> q, res |-> res]>>

\* the response being returned answers a request of this method
Answered(method) == last # <<>> /\ last[1].req.method = method

\* the caller of a request whose cookie resolves to an identity
CallerOf(q) == getAuth(q.token)[2]

InFlight == BagToSet(reqs)

(* ------------------------ GET /api/pantry ------------------------------- *)

ListFilter_NoStatus(userId) == [userId |-> userId]

ListFilter_NoOwner(userId) == [status |-> ACTIVE]

\* the query filter of the list endpoint
ListFilter(userId) == [userId |-> userId, status |-> ACTIVE]

\* GET up to its store query: resolves the caller, 401 when there is none
GetStart(tokens, cap) ==
  /\ last = <<>>
  /\ BagCardinality(reqs) < cap
  /\ \E token \in tokens :
       LET q == Request("GET", token, Undefined, <<>>)
       IN  IF TypeOf(getAuth(token)) = "null"
           THEN Respond(q, Unauthorized) /\ UNCHANGED reqs
           ELSE Suspend(q)
  /\ UNCHANGED <<store, now, okCount, submitted>>
  /\ UNCHANGED <<clientVars, dbVars>>

\* GET from its store query on: find(...).sort(...).lean() and the response
GetFind ==
  /\ last = <<>>
  /\ \E q \in InFlight :
       /\ q.method = "GET"
       /\ \E items \in FindSorted(store, ListFilter(getAuth(q.token)[2])) :
            Respond(q, Response(200, "", FALSE, items))
       /\ Resume(q)
  /\ UNCHANGED <<store, now, okCount, submitted>>
  /\ UNCHANGED <<clientVars, dbVars>>

(* ------------------------ POST /api/pantry ------------------------------ *)

QuantityInvalid_AllowZero(quantity) ==
  ~IsFiniteNumber(quantity) \/ (quantity[2] = "finite" /\ quantity[3] < 0)

QuantityInvalid_NoFinite(quantity) == NumberLeqZero(quantity)

\* the quantity check of the handler
QuantityInvalid(quantity) == ~IsFiniteNumber(quantity) \/ NumberLeqZero(quantity)

DateLabelSupplied_EmptyCounts(raw) == ~(TypeOf(raw) = "undefined" \/ TypeOf(raw) = "null")

\* rawDateLabelType !== undefined && rawDateLabelType !== null && rawDateLabelType !== ""
DateLabelSupplied(raw) ==
  ~(TypeOf(raw) = "undefined" \/ TypeOf(raw) = "null" \/ raw = Chars(<<>>))

PostError_NoUnit(body) ==
  IF ~Truthy(TrimmedName(body.name)) THEN "Name is required"
  ELSE IF QuantityInvalid(ToNumber(body.quantity)) THEN "Quantity must be a number > 0"
  ELSE IF DateLabelSupplied(body.dateLabelType) /\ ~isDateLabelType(body.dateLabelType)
       THEN "Invalid dateLabelType"
  ELSE ""

\* the validation of the body: the error of the first failing check, "" when none fails
PostError(body) ==
  IF ~Truthy(TrimmedName(body.name)) THEN "Name is required"
  ELSE IF QuantityInvalid(ToNumber(body.quantity)) THEN "Quantity must be a number > 0"
  ELSE IF ~isPantryUnit(body.unit) THEN "Invalid unit"
  ELSE IF DateLabelSupplied(body.dateLabelType) /\ ~isDateLabelType(body.dateLabelType)
       THEN "Invalid dateLabelType"
  ELSE ""

CreatedStatus_FromBody(body) == IF isPantryStatus(body.status) THEN body.status ELSE ACTIVE

\* the status the handler gives the new entry
CreatedStatus(body) == ACTIVE

CreatedOwner_FromBody(auth, body) ==
  IF TypeOf(body.userId) = "string" THEN body.userId[3] ELSE auth[2]

\* the owner the handler gives the new entry
CreatedOwner(auth, body) == auth[2]

PostDoc_DropsDateLabel(auth, body) ==
  [userId |-> CreatedOwner(auth, body),
   name |-> TrimmedName(body.name),
   quantity |-> ToNumber(body.quantity),
   unit |-> body.unit,
   purchaseDate |-> NullishToUndefined(toDateOrNull(body.purchaseDate)),
   dateLabelType |-> Undefined,
   dateOnPackage |-> NullishToUndefined(toDateOrNull(body.dateOnPackage)),
   status |-> CreatedStatus(body)]

\* the document handed to PantryEntry.create
PostDoc(auth, body) ==
  [userId |-> CreatedOwner(auth, body),
   name |-> TrimmedName(body.name),
   quantity |-> ToNumber(body.quantity),
   unit |-> body.unit,
   purchaseDate |-> NullishToUndefined(toDateOrNull(body.purchaseDate)),
   dateLabelType |-> IF isDateLabelType(body.dateLabelType) THEN body.dateLabelType
                     ELSE Undefined,
   dateOnPackage |-> NullishToUndefined(toDateOrNull(body.dateOnPackage)),
   status |-> CreatedStatus(body)]

\* the body supplies every optional field of the entry
AllOptionalSupplied(body) ==
  /\ Truthy(body.purchaseDate) /\ Truthy(body.dateLabelType) /\ Truthy(body.dateOnPackage)

\* the creates that have passed validation and not yet reached the store
PendingCreates == BagCardinality([q \in {p \in InFlight : p.method = "POST"} |-> reqs[q]])

\* POST up to its store call: resolves the caller, reads and validates the body
PostStart(inputs, cap) ==
  /\ last = <<>>
  /\ BagCardinality(reqs) < cap
  /\ Cardinality(DOMAIN store) + PendingCreates < MaxEntries
  /\ \E in \in inputs :
       LET token == in[1]
           body == in[2]
           q == Request("POST", token, Undefined, <<body>>)
       IN  IF TypeOf(getAuth(token)) = "null"
           THEN Respond(q, Unauthorized) /\ UNCHANGED reqs
           ELSE IF PostError(body) # ""
           THEN Respond(q, Response(400, PostError(body), FALSE, <<>>)) /\ UNCHANGED reqs
           ELSE Suspend(q)
  /\ UNCHANGED <<store, now, okCount, submitted>>
  /\ UNCHANGED <<clientVars, dbVars>>

\* POST from its store call on: PantryEntry.create and the response; a create the
\* schema rejects throws, which the framework answers with 500
PostCreate ==
  /\ last = <<>>
  /\ \E q \in InFlight :
       /\ q.method = "POST"
       /\ LET c == create(store, PostDoc(getAuth(q.token), q.body[1]), now)
          IN  /\ store' = c.store
              /\ IF c.docs = <<>>
                 THEN Respond(q, Response(500, "ValidationError", FALSE, <<>>))
                 ELSE Respond(q, Response(201, "", FALSE, c.docs))
              /\ submitted' = IF c.docs # <<>> /\ AllOptionalSupplied(q.body[1])
                               THEN (c.docs[1]._id :> q.body[1]) @@ submitted
                               ELSE submitted
       /\ Resume(q)
  /\ UNCHANGED <<now, okCount>>
  /\ UNCHANGED <<clientVars, dbVars>>

(* ---------------------- DELETE /api/pantry/:id -------------------------- *)

DeleteFilter_NoStatus(id, userId) == [_id |-> id[2], userId |-> userId]

DeleteFilter_NoOwner(id, userId) == [_id |-> id[2], status |-> ACTIVE]

\* the query filter of the soft delete
DeleteFilter(id, userId) == [_id |-> id[2], userId |-> userId, status |-> ACTIVE]

\* DELETE up to its store call: resolves the caller, checks the id
DeleteStart(tokens, cap) ==
  /\ last = <<>>
  /\ BagCardinality(reqs) < cap
  /\ \E token \in tokens, id \in PathIds :
       LET q == Request("DELETE", token, id, <<>>)
       IN  IF TypeOf(getAuth(token)) = "null"
           THEN Respond(q, Unauthorized) /\ UNCHANGED reqs
           ELSE IF ~isValidObjectId(id)
           THEN Respond(q, Response(400, "Invalid id", FALSE, <<>>)) /\ UNCHANGED reqs
           ELSE Suspend(q)
  /\ UNCHANGED <<store, now, okCount, submitted>>
  /\ UNCHANGED <<clientVars, dbVars>>

DeleteStatus_Consumed == CONSUMED

\* the status the soft delete gives the entry
DeleteStatus == DISCARDED

DeleteResponse_AlwaysOk(docs) == Response(200, "", TRUE, <<>>)

DeleteResponse_NoMatchInvalid(docs) ==
  IF docs = <<>> THEN Response(400, "Invalid id", FALSE, <<>>)
  ELSE Response(200, "", TRUE, <<>>)

\* the response of DELETE to the outcome of the update
DeleteResponse(docs) ==
  IF docs = <<>> THEN Response(404, "Not found", FALSE, <<>>)
  ELSE Response(200, "", TRUE, <<>>)

\* DELETE from its store call on: the conditional update and the response
DeleteUpdate ==
  /\ last = <<>>
  /\ \E q \in InFlight :
       /\ q.method = "DELETE"
       /\ LET u == findOneAndUpdate(store, DeleteFilter(q.id, getAuth(q.token)[2]),
                                    DeleteStatus, now)
          IN  /\ store' = u.store
              /\ Respond(q, DeleteResponse(u.docs))
              /\ okCount' = IF DeleteResponse(u.docs).ok
                            THEN [okCount EXCEPT ![q.id[2]] = @ + 1]
                            ELSE okCount
       /\ Resume(q)
  /\ UNCHANGED <<now, submitted>>
  /\ UNCHANGED <<clientVars, dbVars>>

(* ------------------------ environment ----------------------------------- *)

\* the client receives the response being returned
Receive ==
  /\ last # <<>>
  /\ last' = <<>>
  /\ UNCHANGED <<store, reqs, now, okCount, submitted>>
  /\ UNCHANGED <<clientVars, dbVars>>

\* time passes
Tick ==
  /\ last = <<>>
  /\ now < MaxClock
  /\ now' = now + 1
  /\ UNCHANGED <<store, reqs, last, okCount, submitted>>
  /\ UNCHANGED <<clientVars, dbVars>>

(* ------------------- the entry store called directly ------------------- *)

\* a document the schema accepts
BaseDoc ==
  [userId |-> "u1", name |-> Chars(<<"a">>), quantity |-> Num(25), unit |-> Str("g"),
   purchaseDate |-> Undefined, dateLabelType |-> Undefined, dateOnPackage |-> Undefined,
   status |-> ACTIVE]

\* the documents PantryEntry.create is called with: the base document with one
\* field changed
StoreDocs ==
  {BaseDoc}
    \cup {[BaseDoc EXCEPT !.quantity = q] : q \in {Num(0), Num(0 - 30), Num(5), NaN}}
    \cup {[BaseDoc EXCEPT !.unit = u] : u \in {Str("kg"), Str("oz")}}
    \cup {[BaseDoc EXCEPT !.status = st] : st \in {Undefined, CONSUMED, Str("bogus")}}
    \cup {[BaseDoc EXCEPT !.dateLabelType = d] : d \in {Str("bogus"), Str("use_by")}}

\* PantryEntry.create called with a document, not through a handler: the outcome
\* is the created entry, or the ValidationError the call throws
StoreCreate ==
  /\ last = <<>>
  /\ Cardinality(DOMAIN store) < MaxEntries
  /\ \E doc \in StoreDocs :
       LET c == create(store, doc, now)
           q == Request("create", Undefined, Undefined, <<doc>>)
       IN  /\ store' = c.store
           /\ IF c.docs = <<>>
              THEN Respond(q, Response(500, "ValidationError", FALSE, <<>>))
              ELSE Respond(q, Response(201, "", FALSE, c.docs))
  /\ UNCHANGED <<reqs, now, okCount, submitted>>
  /\ UNCHANGED <<clientVars, dbVars>>

\* requests of every kind arrive and run concurrently, within one tick of the clock
Next ==
  \/ GetStart(Tokens, MaxReqs)
  \/ GetFind
  \/ PostStart(Tokens \X Bodies, MaxReqs)
  \/ PostCreate
  \/ DeleteStart(Tokens, MaxReqs)
  \/ DeleteUpdate
  \/ Receive

Spec == Init /\ [][Next]_vars

\* one request at a time, with every kind of cookie and body, as time passes
NextSeq ==
  \/ GetStart(AllTokens, 1)
  \/ GetFind
  \/ PostStart(SeqInputs, 1)
  \/ PostCreate
  \/ DeleteStart(AllTokens, 1)
  \/ DeleteUpdate
  \/ Receive
  \/ Tick

SeqSpec == Init /\ [][NextSeq]_vars

\* the store on its own: creates called directly, as time passes
NextStore ==
  \/ StoreCreate
  \/ Receive
  \/ Tick

StoreSpec == Init /\ [][NextStore]_vars

(* ------------------- the pantry page: sort option ----------------------- *)

\* the page has loaded a list of items
InitOrder ==
  /\ ServerInit
  /\ \E items \in ItemLists : state = Ready(items)
  /\ sortOption = DEFAULT_PANTRY_SORT
  /\ groups = Memo(state, sortOption)
  /\ loads = <<>> /\ latest = <<state>> /\ mounted = TRUE /\ deleting = {}
  /\ cookie = TokenOf("u1")
  /\ DbInit

\* the sort option is set and the page renders the groups again
setSortOption(option) ==
  /\ sortOption' = option
  /\ groups' = Memo(state, option)
  /\ UNCHANGED <<state, loadVars, serverVars, dbVars>>

\* the page orders a loaded list under one sort option after another
NextOrder == \E option \in SortInputs : setSortOption(option)

OrderSpec == InitOrder /\ [][NextOrder]_vars

(* ------------------- the pantry page: loading --------------------------- *)

\* the body the add form submits: the trimmed name, the quantity and the unit
FormBody == [BaseBody EXCEPT !.name = Chars(<<"a">>)]

\* a session cookie whose token no longer verifies
ExpiredCookie == Jwt(FALSE, Str("u1"), EmailOf("u1"))

\* an ObjectId in a JSON response: its hexadecimal string
HexId(n) == <<"string", "hex", n>>

\* a date of a document in a JSON response: an ISO string, absent when not set
JsonDate(v) == IF TypeOf(v) = "date" THEN Iso(v[3]) ELSE Undefined

\* a document as NextResponse.json serialises it
ToJson(doc) ==
  [_id |-> HexId(doc._id), userId |-> doc.userId, name |-> doc.name,
   quantity |-> doc.quantity, unit |-> doc.unit, status |-> doc.status,
   purchaseDate |-> JsonDate(doc.purchaseDate), dateLabelType |-> doc.dateLabelType,
   dateOnPackage |-> JsonDate(doc.dateOnPackage),
   createdAt |-> Iso(doc.createdAt), updatedAt |-> Iso(doc.updatedAt)]

\* res.ok
ResOk(res) == res.status \in 200..299

\* the load state load() sets for a response
StateOf(res) ==
  IF ~ResOk(res)
  THEN Failed(IF res.error # "" THEN res.error ELSE "Failed to load pantry")
  ELSE Ready([k \in 1..Len(res.items) |-> ToJson(res.items[k])])

\* load() up to its await: the page shows Loading and the GET is sent
loadStart ==
  /\ Len(loads) < MaxLoads
  /\ state' = Loading
  /\ groups' = Memo(Loading, sortOption)
  /\ loads' = Append(loads, [pc |-> "fetch", token |-> cookie, res |-> <<>>])
  /\ latest' = <<>>

\* the mount effect calls load()
Mount ==
  /\ ~mounted
  /\ mounted' = TRUE
  /\ loadStart
  /\ UNCHANGED <<sortOption, deleting, cookie, serverVars, dbVars>>

\* the Retry button, shown with an error, calls load()
Retry ==
  /\ state.status = "error"
  /\ loadStart
  /\ UNCHANGED <<sortOption, mounted, deleting, cookie, serverVars, dbVars>>

\* the server answers the GET of a call of load()
LoadServe ==
  /\ \E k \in 1..Len(loads) :
       /\ loads[k].pc = "fetch"
       /\ \E res \in IF TypeOf(getAuth(loads[k].token)) = "null"
                     THEN {Unauthorized}
                     ELSE {Response(200, "", FALSE, items) :
                             items \in FindSorted(store, ListFilter(getAuth(loads[k].token)[2]))} :
            loads' = [loads EXCEPT ![k] = [@ EXCEPT !.pc = "responded", !.res = res]]
  /\ UNCHANGED <<pageVars, latest, mounted, deleting, cookie, serverVars, dbVars>>

\* load() from its await on: the response arrives and sets the load state
LoadFinish ==
  /\ \E k \in 1..Len(loads) :
       /\ loads[k].pc = "responded"
       /\ state' = StateOf(loads[k].res)
       /\ groups' = Memo(StateOf(loads[k].res), sortOption)
       /\ loads' = [j \in 1..(Len(loads) - 1) |-> IF j < k THEN loads[j] ELSE loads[j + 1]]
       /\ latest' = IF k = Len(loads) /\ latest = <<>>
                    THEN <<StateOf(loads[k].res)>>
                    ELSE latest
  /\ UNCHANGED <<sortOption, mounted, deleting, cookie, serverVars, dbVars>>

\* the Delete button of a shown item: the DELETE is sent
DeleteClick ==
  /\ state.status = "ready"
  /\ \E k \in 1..Len(state.items) :
       /\ state.items[k]._id \notin deleting
       /\ deleting' = deleting \cup {state.items[k]._id}
  /\ UNCHANGED <<pageVars, loads, latest, mounted, cookie, serverVars, dbVars>>

\* the server answers a DELETE of the page and the click handler goes on to load()
DeleteDone ==
  /\ \E id \in deleting :
       /\ deleting' = deleting \ {id}
       /\ store' = IF TypeOf(getAuth(cookie)) = "null"
                   THEN store
                   ELSE findOneAndUpdate(store, DeleteFilter(Oid(id[3]), getAuth(cookie)[2]),
                                         DeleteStatus, now).store
  /\ loadStart
  /\ UNCHANGED <<sortOption, mounted, cookie, reqs, now, last, okCount, submitted, dbVars>>

\* the add form is submitted, the server creates the entry and onSuccess calls load()
AddSuccess ==
  /\ mounted
  /\ TypeOf(getAuth(cookie)) # "null"
  /\ PostError(FormBody) = ""
  /\ Cardinality(DOMAIN store) < MaxEntries
  /\ store' = create(store, PostDoc(getAuth(cookie), FormBody), now).store
  /\ loadStart
  /\ UNCHANGED <<sortOption, mounted, deleting, cookie, reqs, now, last, okCount,
                 submitted, dbVars>>

\* the session ends: the cookie no longer verifies
SessionExpire ==
  /\ cookie = TokenOf("u1")
  /\ cookie' = ExpiredCookie
  /\ UNCHANGED <<pageVars, loads, latest, mounted, deleting, serverVars, dbVars>>

\* one pantry page and the server behind it
NextClient ==
  \/ Mount
  \/ Retry
  \/ LoadServe
  \/ LoadFinish
  \/ DeleteClick
  \/ DeleteDone
  \/ AddSuccess
  \/ SessionExpire

ClientSpec == Init /\ [][NextClient]_vars

(* ------------------------- connectDB ------------------------------------ *)

NeedsConnect_ChecksConn(mc) == mc.conn = 0

\* !global.mongooseConn.promise
NeedsConnect(mc) == mc.promise = 0

\* connectDB up to its await: returns the cached connection when there is one,
\* calls mongoose.connect when no promise is cached, and awaits the cached promise
connectDBStart(c) ==
  /\ calls[c].pc = "idle"
  /\ IF mongooseConn.conn # 0
     THEN /\ calls' = [calls EXCEPT ![c] = [pc |-> "returned", awaits |-> 0,
                                            result |-> mongooseConn.conn]]
          /\ UNCHANGED <<mongooseConn, promises>>
     ELSE IF NeedsConnect(mongooseConn)
     THEN /\ promises' = Append(promises, "pending")
          /\ mongooseConn' = [mongooseConn EXCEPT !.promise = Len(promises) + 1]
          /\ calls' = [calls EXCEPT ![c] = [pc |-> "await", awaits |-> Len(promises) + 1,
                                            result |-> 0]]
     ELSE /\ calls' = [calls EXCEPT ![c] = [pc |-> "await", awaits |-> mongooseConn.promise,
                                            result |-> 0]]
          /\ UNCHANGED <<mongooseConn, promises>>
  /\ UNCHANGED <<serverVars, clientVars>>

\* a connection attempt succeeds: its promise is fulfilled
ConnectFulfil ==
  /\ \E k \in 1..Len(promises) :
       /\ promises[k] = "pending"
       /\ promises' = [promises EXCEPT ![k] = "fulfilled"]
  /\ UNCHANGED <<mongooseConn, calls, serverVars, clientVars>>

\* a connection attempt fails: its promise is rejected
ConnectReject ==
  /\ \E k \in 1..Len(promises) :
       /\ promises[k] = "pending"
       /\ promises' = [promises EXCEPT ![k] = "rejected"]
  /\ UNCHANGED <<mongooseConn, calls, serverVars, clientVars>>

\* connectDB from its await on: caches the connection and returns it, or throws
\* what the promise was rejected with
connectDBResume(c) ==
  /\ calls[c].pc = "await"
  /\ promises[calls[c].awaits] # "pending"
  /\ IF promises[calls[c].awaits] = "fulfilled"
     THEN /\ mongooseConn' = [mongooseConn EXCEPT !.conn = calls[c].awaits]
          /\ calls' = [calls EXCEPT ![c] = [@ EXCEPT !.pc = "returned",
                                                      !.result = calls[c].awaits]]
     ELSE /\ calls' = [calls EXCEPT ![c] = [@ EXCEPT !.pc = "threw"]]
          /\ UNCHANGED mongooseConn
  /\ UNCHANGED <<promises, serverVars, clientVars>>

\* the calls of connectDB of one server process, in any interleaving
NextDb ==
  \/ \E c \in 1..MaxCalls : connectDBStart(c)
  \/ ConnectFulfil
  \/ ConnectReject
  \/ \E c \in 1..MaxCalls : connectDBResume(c)

DbSpec == Init /\ [][NextDb]_vars

(* ======================= Properties ====================================== *)

\* the DELETE request q resumes from its store call in this step
DeleteStep(q) ==
  /\ q \in InFlight /\ q.method = "DELETE"
  /\ reqs' = reqs (-) SetToBag({q})
  /\ last' # <<>> /\ last'[1].req = q

\* the response being returned is the answer to a DELETE of entry i by its owner
OwnerDeleteAnswered(i) ==
  /\ Answered("DELETE")
  /\ last[1].req.id = Oid(i)
  /\ TypeOf(getAuth(last[1].req.token)) # "null"
  /\ CallerOf(last[1].req) = store[i].userId

\* C1: however many DELETE calls the owner issues on an entry, in sequence or
\* concurrently, exactly one is answered with success and every other one with
\* 404 Not found, and the entry goes from ACTIVE to DISCARDED exactly once, in the
\* step that answers the one success.
C1_ExactlyOneSuccess ==
  /\ [](\A i \in DOMAIN store :
          /\ okCount[i] = (IF store[i].status = DISCARDED THEN 1 ELSE 0)
          /\ OwnerDeleteAnswered(i) =>
               /\ store[i].status = DISCARDED
               /\ okCount[i] = 1
               /\ last[1].res \in {Response(200, "", TRUE, <<>>),
                                   Response(404, "Not found", FALSE, <<>>)})
  /\ [][\A i \in DOMAIN store :
          store'[i].status # store[i].status =>
            /\ store[i].status = ACTIVE /\ store'[i].status = DISCARDED
            /\ okCount[i] = 0 /\ okCount'[i] = 1
            /\ last' # <<>> /\ last'[1].req.id = Oid(i) /\ last'[1].res.ok]_vars

\* C1 witness: one DELETE of the entry was answered with success, a second one by
\* the owner is being answered 404, and a third one is still in flight
C1_Witness ==
  \E i \in DOMAIN store :
    /\ OwnerDeleteAnswered(i)
    /\ last[1].res.status = 404
    /\ okCount[i] = 1
    /\ \E q \in InFlight : q.method = "DELETE" /\ q.id = Oid(i) /\ q.token = last[1].req.token

\* the entry the soft delete of request q matches in store s, if any
Hit(s, q) ==
  /\ q.id[2] \in DOMAIN s
  /\ s[q.id[2]].userId = CallerOf(q)
  /\ s[q.id[2]].status = ACTIVE

\* C2: the soft delete sets an entry's status to DISCARDED if and only if, when the
\* update runs, an entry with that id exists, belongs to the caller and is ACTIVE;
\* it reports success exactly then, and otherwise changes nothing and reports
\* Not found.
C2_SoftDeleteIff ==
  [][\A q \in InFlight : DeleteStep(q) =>
       IF Hit(store, q)
       THEN /\ store'[q.id[2]].status = DISCARDED
            /\ \A j \in DOMAIN store : j # q.id[2] => store'[j] = store[j]
            /\ DOMAIN store' = DOMAIN store
            /\ last'[1].res.ok /\ last'[1].res.status = 200
       ELSE /\ store' = store
            /\ ~last'[1].res.ok /\ last'[1].res.status = 404]_vars

\* C2 witness: a soft delete has just discarded the caller's entry while an ACTIVE
\* entry of another owner is in the store
C2_Witness ==
  /\ Answered("DELETE") /\ last[1].res.ok
  /\ store[last[1].req.id[2]].status = DISCARDED
  /\ \E j \in DOMAIN store :
       store[j].userId # CallerOf(last[1].req) /\ store[j].status = ACTIVE

\* the part of store s that belongs to user u
OwnPart(s, u) == [i \in {j \in DOMAIN s : s[j].userId = u} |-> s[i]]

\* C3: a DELETE by a caller who does not own the target entry is answered 404 Not
\* found and changes nothing, exactly as for an id that is in no entry: the answer
\* is the one the same call gets from the store without the other owners' entries.
C3_NoExistenceLeak ==
  [][\A q \in InFlight : DeleteStep(q) =>
       /\ last'[1].res =
            DeleteResponse(findOneAndUpdate(OwnPart(store, CallerOf(q)),
                             [_id |-> q.id[2], userId |-> CallerOf(q), status |-> ACTIVE],
                             DISCARDED, now).docs)
       /\ (q.id[2] \notin DOMAIN store \/ store[q.id[2]].userId # CallerOf(q)) =>
            /\ last'[1].res = Response(404, "Not found", FALSE, <<>>)
            /\ store' = store]_vars

\* C3 witness: a DELETE of another owner's ACTIVE entry is being answered 404
C3_Witness ==
  /\ Answered("DELETE") /\ last[1].res.status = 404
  /\ last[1].req.id[2] \in DOMAIN store
  /\ store[last[1].req.id[2]].userId # CallerOf(last[1].req)
  /\ store[last[1].req.id[2]].status = ACTIVE

\* the list being returned, as the set of its items
ListedItems == {last[1].res.items[k] : k \in 1..Len(last[1].res.items)}

\* the response being returned is a list
ListAnswered == Answered("GET") /\ last[1].res.status = 200

\* C4: a list never contains a DISCARDED entry: no entry whose DELETE was answered
\* with success before the query of the list ran (so before any list request that
\* started after that answer) is in the list, whatever requests ran in between.
C4_NoDiscardedListed ==
  ListAnswered =>
    \A it \in ListedItems :
      /\ it.status = ACTIVE
      /\ store[it._id].status # DISCARDED
      /\ okCount[it._id] = 0

\* C4 witness: a non-empty list is returned to an owner one of whose entries was
\* discarded by a DELETE answered with success
C4_Witness ==
  /\ ListAnswered /\ ListedItems # {}
  /\ \E i \in DOMAIN store :
       /\ store[i].userId = CallerOf(last[1].req)
       /\ store[i].status = DISCARDED /\ okCount[i] = 1

\* C5: the list returned to a caller is exactly the stored entries that the caller
\* owns and that are ACTIVE, each once and as stored.
C5_ListExact ==
  ListAnswered =>
    /\ {it._id : it \in ListedItems} =
         {i \in DOMAIN store :
            store[i].userId = CallerOf(last[1].req) /\ store[i].status = ACTIVE}
    /\ \A it \in ListedItems : it = store[it._id]
    /\ Len(last[1].res.items) = Cardinality(ListedItems)

\* C5 witness: a list with an entry in it is returned while the store also holds an
\* ACTIVE entry of another owner and a DISCARDED entry
C5_Witness ==
  /\ ListAnswered /\ ListedItems # {}
  /\ \E j \in DOMAIN store :
       store[j].userId # CallerOf(last[1].req) /\ store[j].status = ACTIVE

\* C6: whatever creates, lists and deletes run, an entry that is no longer ACTIVE is
\* never ACTIVE again, the only change of status any step makes is from ACTIVE to
\* DISCARDED, and no entry ever has the status CONSUMED.
C6_StatusMonotonic ==
  [][/\ \A i \in DOMAIN store \cap DOMAIN store' :
          /\ store[i].status # ACTIVE => store'[i].status # ACTIVE
          /\ store'[i].status # store[i].status =>
               store[i].status = ACTIVE /\ store'[i].status = DISCARDED
     /\ \A i \in DOMAIN store' : store'[i].status # CONSUMED]_vars

\* C6 witness: a create whose body carries the status CONSUMED has just been
\* answered while an earlier entry is DISCARDED
C6_Witness ==
  /\ Answered("POST") /\ last[1].res.status = 201
  /\ last[1].req.body[1].status = CONSUMED
  /\ \E i \in DOMAIN store : store[i].status = DISCARDED

\* C7: an entry is never removed from the store: every id in the store is in the
\* store after every step; a delete changes the status only.
C7_NeverRemoved ==
  [][\A i \in DOMAIN store :
       /\ i \in DOMAIN store'
       /\ store'[i]._id = store[i]._id
       /\ store'[i].userId = store[i].userId]_vars

\* C7 witness: the entry a DELETE was answered with success for is in the store,
\* DISCARDED, while a request is in flight
C7_Witness ==
  /\ Answered("DELETE") /\ last[1].res.ok
  /\ last[1].req.id[2] \in DOMAIN store
  /\ store[last[1].req.id[2]].status = DISCARDED
  /\ InFlight # {}

\* C8: every entry in the store has a finite quantity above 0, a unit and a status
\* of their enumerations, and a dateLabelType that is absent or of its enumeration.
C8_EntryInvariants ==
  \A i \in DOMAIN store :
    /\ IsFiniteNumber(store[i].quantity) /\ store[i].quantity[3] > 0
    /\ store[i].unit \in {Str(PANTRY_UNITS[k]) : k \in 1..Len(PANTRY_UNITS)}
    /\ store[i].status \in {Str(PANTRY_STATUSES[k]) : k \in 1..Len(PANTRY_STATUSES)}
    /\ \/ store[i].dateLabelType = Undefined
       \/ store[i].dateLabelType \in {Str(DATE_LABEL_TYPES[k]) : k \in 1..Len(DATE_LABEL_TYPES)}

\* C8 witness: the store holds a DISCARDED entry with a dateLabelType and an entry
\* without one
C8_Witness ==
  /\ \E i \in DOMAIN store :
       store[i].dateLabelType # Undefined /\ store[i].status = DISCARDED
  /\ \E i \in DOMAIN store : store[i].dateLabelType = Undefined

\* the response being returned answers a create of an authenticated caller
CreateAnswered == Answered("POST") /\ TypeOf(getAuth(last[1].req.token)) # "null"

\* C9: the entry of every successful create is ACTIVE whatever status the body
\* carries, has a quantity above 0 and a unit of the enumeration, and is owned by
\* the authenticated caller, never by an owner named in the body.
C9_CreatedEntry ==
  (CreateAnswered /\ last[1].res.status = 201) =>
    LET item == last[1].res.items[1]
    IN  /\ Len(last[1].res.items) = 1
        /\ item.status = ACTIVE
        /\ IsFiniteNumber(item.quantity) /\ item.quantity[3] > 0
        /\ item.unit \in {Str(PANTRY_UNITS[k]) : k \in 1..Len(PANTRY_UNITS)}
        /\ item.userId = CallerOf(last[1].req)
        /\ item._id \in DOMAIN store /\ store[item._id] = item

\* C9 witness: a create is answered 201 whose body names the status CONSUMED and
\* another user as owner
C9_Witness ==
  /\ CreateAnswered /\ last[1].res.status = 201
  /\ last[1].req.body[1].status = CONSUMED
  /\ TypeOf(last[1].req.body[1].userId) = "string"
  /\ last[1].req.body[1].userId[3] # CallerOf(last[1].req)

\* the quantity of the body parses to a finite number above 0
QuantityAccepted(body) ==
  LET n == ToNumber(body.quantity) IN n[2] = "finite" /\ n[3] > 0

\* C10: a create of an authenticated caller whose quantity does not parse to a
\* finite number above 0 (0, -3, "abc") fails with 400, with the quantity error
\* whenever the name check before it passes; a create whose quantity is finite and
\* above 0 never fails with the quantity error, and succeeds when the other fields
\* are valid (2.5 with the unit "g").
C10_QuantityError ==
  CreateAnswered =>
    LET body == last[1].req.body[1]
        res == last[1].res
    IN  /\ ~QuantityAccepted(body) =>
             /\ res.status = 400
             /\ Truthy(TrimmedName(body.name)) =>
                  res.error = "Quantity must be a number > 0"
        /\ QuantityAccepted(body) =>
             /\ res.error # "Quantity must be a number > 0"
             /\ ( /\ body.name = BaseBody.name /\ body.unit = Str("g")
                  /\ body.dateLabelType = Undefined ) => res.status = 201

\* C10 witness: a create with the quantity "abc" is being answered with the
\* quantity error, after a create with the quantity "2.5" has stored its entry
C10_Witness ==
  /\ CreateAnswered
  /\ last[1].req.body[1].quantity = Chars(<<"a", "b", "c">>)
  /\ last[1].res = Response(400, "Quantity must be a number > 0", FALSE, <<>>)
  /\ \E i \in DOMAIN store : store[i].quantity = Num(25)

\* the name of the body is non-empty after trimming
NameOk(body) == TypeOf(body.name) = "string" /\ Trim(body.name[3]) # <<>>

\* the unit of the body is a member of the unit enumeration
UnitOk(body) == \E k \in 1..Len(PANTRY_UNITS) : body.unit = Str(PANTRY_UNITS[k])

\* the dateLabelType of the body is absent, null or the empty string
LabelAbsent(body) ==
  \/ body.dateLabelType = Undefined
  \/ body.dateLabelType = Null
  \/ body.dateLabelType = Chars(<<>>)

\* the dateLabelType of the body is a member of the date-label enumeration
LabelMember(body) ==
  \E k \in 1..Len(DATE_LABEL_TYPES) : body.dateLabelType = Str(DATE_LABEL_TYPES[k])

\* the four conditions of a valid submission
ValidInput(body) ==
  /\ NameOk(body) /\ QuantityAccepted(body) /\ UnitOk(body)
  /\ (LabelAbsent(body) \/ LabelMember(body))

\* the errors that name a failing field of the body
FailingFields(body) ==
  {e \in {"Name is required", "Quantity must be a number > 0", "Invalid unit",
          "Invalid dateLabelType"} :
     \/ e = "Name is required" /\ ~NameOk(body)
     \/ e = "Quantity must be a number > 0" /\ ~QuantityAccepted(body)
     \/ e = "Invalid unit" /\ ~UnitOk(body)
     \/ e = "Invalid dateLabelType" /\ ~(LabelAbsent(body) \/ LabelMember(body))}

\* a response to a POST of an authenticated caller starts being returned in this step
CreateAnswering ==
  /\ last = <<>> /\ last' # <<>>
  /\ last'[1].req.method = "POST"
  /\ TypeOf(getAuth(last'[1].req.token)) # "null"

\* C11: a create of an authenticated caller stores an entry (and is answered 201
\* with it) if and only if the name is non-empty after trimming, the quantity
\* parses to a finite number above 0, the unit is of the enumeration and the
\* dateLabelType is absent, empty or of its enumeration; otherwise it is answered
\* 400 with the error of a failing field and stores nothing, and never reaches
\* the store call.
C11_CreateIff ==
  /\ [](\A q \in InFlight : q.method = "POST" => ValidInput(q.body[1]))
  /\ [][CreateAnswering =>
          LET body == last'[1].req.body[1]
              res == last'[1].res
          IN  IF ValidInput(body)
              THEN /\ res.status = 201 /\ Len(res.items) = 1
                   /\ res.items[1]._id \notin DOMAIN store
                   /\ DOMAIN store' = DOMAIN store \cup {res.items[1]._id}
                   /\ store'[res.items[1]._id] = res.items[1]
              ELSE /\ res.status = 400
                   /\ res.error \in FailingFields(body)
                   /\ res.items = <<>>
                   /\ store' = store]_vars

\* C11 witness: a create whose unit and dateLabelType are both outside their
\* enumerations is answered 400 with the unit error, after a create has stored an
\* entry
C11_Witness ==
  /\ CreateAnswered
  /\ ~UnitOk(last[1].req.body[1])
  /\ ~(LabelAbsent(last[1].req.body[1]) \/ LabelMember(last[1].req.body[1]))
  /\ last[1].res = Response(400, "Invalid unit", FALSE, <<>>)
  /\ store # <<>>

\* C12: in a create whose name, quantity and unit are valid, a dateLabelType that
\* is supplied, not empty and not of the date-label enumeration gives 400 with the
\* dateLabelType error; one that is absent, null or the empty string is accepted,
\* and the entry created has no dateLabelType.
C12_DateLabelType ==
  ( /\ CreateAnswered
    /\ NameOk(last[1].req.body[1]) /\ QuantityAccepted(last[1].req.body[1])
    /\ UnitOk(last[1].req.body[1]) ) =>
    LET body == last[1].req.body[1]
        res == last[1].res
    IN  /\ (~LabelAbsent(body) /\ ~LabelMember(body)) =>
             res = Response(400, "Invalid dateLabelType", FALSE, <<>>)
        /\ LabelAbsent(body) =>
             /\ res.status = 201
             /\ res.items[1].dateLabelType = Undefined
             /\ store[res.items[1]._id].dateLabelType = Undefined

\* C12 witness: a create whose dateLabelType is the empty string is answered 201
\* with an entry that has no dateLabelType
C12_Witness ==
  /\ CreateAnswered /\ last[1].res.status = 201
  /\ last[1].req.body[1].dateLabelType = Chars(<<>>)
  /\ last[1].res.items[1].dateLabelType = Undefined

\* the date input is falsy, or does not parse to a valid date
DateUnusable(v) == ~Truthy(v) \/ NewDate(v) = InvalidDate

\* C13: a create whose other fields are valid succeeds whatever its purchaseDate
\* and dateOnPackage are, and a date that is falsy, empty or unparseable
\* ("not-a-date") is stored as absent.
C13_LenientDates ==
  (CreateAnswered /\ ValidInput(last[1].req.body[1])) =>
    LET body == last[1].req.body[1]
        res == last[1].res
    IN  /\ res.status = 201
        /\ DateUnusable(body.purchaseDate) =>
             /\ res.items[1].purchaseDate = Undefined
             /\ store[res.items[1]._id].purchaseDate = Undefined
        /\ DateUnusable(body.dateOnPackage) =>
             /\ res.items[1].dateOnPackage = Undefined
             /\ store[res.items[1]._id].dateOnPackage = Undefined

\* C13 witness: a create with the dateOnPackage "not-a-date" is answered 201 with
\* an entry that has no dateOnPackage
C13_Witness ==
  /\ CreateAnswered /\ last[1].res.status = 201
  /\ last[1].req.body[1].dateOnPackage = NotADate
  /\ last[1].res.items[1].dateOnPackage = Undefined

\* the cookie is a token that verifies and carries both a userId and an email
HasIdentity(token) ==
  /\ TypeOf(token) = "jwt" /\ token[2]
  /\ TypeOf(token[3]) = "string" /\ token[3] # Chars(<<>>)
  /\ TypeOf(token[4]) = "string" /\ token[4] # Chars(<<>>)

\* C14: a create, list or delete whose cookie resolves to no identity (no cookie,
\* an empty one, a token that does not verify, a token without userId or without
\* email) is answered 401 Unauthorized whatever its body or id is, in a step that
\* neither reads nor writes the store, and it never reaches its store call.
C14_UnauthorizedFirst ==
  /\ [](/\ \A q \in InFlight : HasIdentity(q.token)
        /\ (last # <<>> /\ ~HasIdentity(last[1].req.token)) => last[1].res = Unauthorized)
  /\ [][(last = <<>> /\ last' # <<>> /\ ~HasIdentity(last'[1].req.token)) =>
          /\ last'[1].res = Unauthorized
          /\ store' = store /\ reqs' = reqs]_vars

\* C14 witness: a create with the empty body, under a token without email, is
\* answered 401 while the store holds an entry
C14_Witness ==
  /\ Answered("POST")
  /\ last[1].req.token = Jwt(TRUE, Str("u1"), Undefined)
  /\ last[1].req.body[1] = EmptyBody
  /\ last[1].res = Unauthorized
  /\ store # <<>>

\* C15: a create that fails (401 or 400) leaves the store as it was, and one that
\* succeeds adds exactly one entry, the one it returns, and changes no entry that
\* was in the store; the part of the handler before the store call writes nothing.
C15_NoPartialWrite ==
  [][/\ (last = <<>> /\ last' # <<>> /\ last'[1].req.method = "POST") =>
          IF last'[1].res.status = 201
          THEN \E n \in DOMAIN store' \ DOMAIN store :
                 /\ DOMAIN store' = DOMAIN store \cup {n}
                 /\ \A i \in DOMAIN store : store'[i] = store[i]
                 /\ store'[n] = last'[1].res.items[1]
          ELSE /\ last'[1].res.status \in {400, 401}
               /\ store' = store
     /\ (\E q \in BagToSet(reqs') : q.method = "POST" /\ CopiesIn(q, reqs') > CopiesIn(q, reqs)) =>
          store' = store]_vars

\* C15 witness: a create is answered 201 as the second entry of the store while
\* another request is in flight
C15_Witness ==
  /\ Answered("POST") /\ last[1].res.status = 201
  /\ Cardinality(DOMAIN store) = 2
  /\ last[1].res.items[1]._id = 2
  /\ InFlight # {}

\* the listed entry it has the quantity, unit, dateLabelType and dateOnPackage of
\* the body it was created from: the number, the strings and the date submitted
SameFieldsAsSubmitted(it, body) ==
  /\ it.quantity = ToNumber(body.quantity)
  /\ it.unit = body.unit
  /\ it.dateLabelType = body.dateLabelType
  /\ it.dateOnPackage = NewDate(body.dateOnPackage)

\* C16 as stated: an entry created with every optional field supplied is listed to
\* its owner with the name, quantity, unit, dateLabelType and dateOnPackage that
\* were submitted.
C16_RoundTripExact ==
  ListAnswered =>
    \A it \in ListedItems :
      it._id \in DOMAIN submitted =>
        /\ it.name = submitted[it._id].name
        /\ SameFieldsAsSubmitted(it, submitted[it._id])

\* C16: an entry created with every optional field supplied is listed to its
\* owner with the submitted name without its surrounding white space, and with
\* the quantity, unit, dateLabelType and dateOnPackage that were submitted.
C16_RoundTrip ==
  ListAnswered =>
    \A it \in ListedItems :
      it._id \in DOMAIN submitted =>
        /\ it.name = Chars(Trim(submitted[it._id].name[3]))
        /\ SameFieldsAsSubmitted(it, submitted[it._id])
        /\ it.userId = CallerOf(last[1].req)

\* C16 witness: the list being returned holds an entry created with every
\* optional field supplied, with its dateLabelType and dateOnPackage
C16_Witness ==
  /\ ListAnswered
  /\ \E it \in ListedItems :
       /\ it._id \in DOMAIN submitted
       /\ it.dateLabelType = Str("use_by")
       /\ TypeOf(it.dateOnPackage) = "date"

\* the document breaks an invariant of the data model: a quantity that is 0 or
\* below, or a unit, status or dateLabelType outside its enumeration
ViolatesInvariants(doc) ==
  \/ TypeOf(doc.quantity) = "number" /\ NumberLeqZero(doc.quantity)
  \/ ~(\E k \in 1..Len(PANTRY_UNITS) : doc.unit = Str(PANTRY_UNITS[k]))
  \/ /\ doc.status # Undefined
     /\ ~(\E k \in 1..Len(PANTRY_STATUSES) : doc.status = Str(PANTRY_STATUSES[k]))
  \/ /\ doc.dateLabelType # Undefined
     /\ ~(\E k \in 1..Len(DATE_LABEL_TYPES) : doc.dateLabelType = Str(DATE_LABEL_TYPES[k]))

\* C17: the store rejects a create whose document has a quantity of 0 or below, or
\* a unit, status or dateLabelType outside its enumeration: the call fails with
\* ValidationError, returns no entry and stores nothing.
C17_StoreRejects ==
  (Answered("create") /\ ViolatesInvariants(last[1].req.body[1])) =>
    /\ last[1].res = Response(500, "ValidationError", FALSE, <<>>)
    /\ \A i \in DOMAIN store : store[i].quantity # last[1].req.body[1].quantity

\* the three outcomes of the delete endpoint that the interface names
DeleteSuccess == Response(200, "", TRUE, <<>>)
DeleteNotFound == Response(404, "Not found", FALSE, <<>>)
DeleteInvalidId == Response(400, "Invalid id", FALSE, <<>>)

\* C18 as stated: every answer of the delete endpoint, for every cookie and every
\* path identifier, well-formed or not, is success, Not found or Unauthorized.
C18_DeleteOutcomes ==
  Answered("DELETE") => last[1].res \in {DeleteSuccess, DeleteNotFound, Unauthorized}

\* C18: every answer of the delete endpoint, for every cookie and every path
\* identifier, is success, Not found, Unauthorized or 400 Invalid id, the last
\* exactly when the caller has an identity and the identifier is not a
\* well-formed store id.
C18_DeleteOutcomesWithInvalidId ==
  Answered("DELETE") =>
    /\ last[1].res \in {DeleteSuccess, DeleteNotFound, Unauthorized, DeleteInvalidId}
    /\ last[1].res = DeleteInvalidId <=>
         (HasIdentity(last[1].req.token) /\ TypeOf(last[1].req.id) # "oid")
    /\ last[1].res = Unauthorized <=> ~HasIdentity(last[1].req.token)

\* C18 witness: a delete with the path identifier "abc" by an authenticated caller
\* is answered 400 Invalid id while the store holds an entry
C18_Witness ==
  /\ Answered("DELETE")
  /\ HasIdentity(last[1].req.token)
  /\ last[1].req.id = Str("abc")
  /\ last[1].res = DeleteInvalidId
  /\ store # <<>>

\* a DELETE is answered with success in this step
DeleteSucceeding ==
  /\ last = <<>> /\ last' # <<>>
  /\ last'[1].req.method = "DELETE"
  /\ last'[1].res = DeleteSuccess

\* C19: an entry of the store changes only in the step of a soft delete of that
\* entry by its owner that is answered with success, and then only its status
\* (ACTIVE to DISCARDED) and its updatedAt change: its _id, userId, name,
\* quantity, unit, purchaseDate, dateLabelType, dateOnPackage and createdAt, and
\* every other entry of the store, are as before.
C19_SoftDeleteFrame ==
  [][/\ \A i \in DOMAIN store :
          /\ i \in DOMAIN store'
          /\ store'[i] # store[i] =>
               /\ DeleteSucceeding
               /\ last'[1].req.id = Oid(i)
               /\ CallerOf(last'[1].req) = store[i].userId
     /\ DeleteSucceeding =>
          LET i == last'[1].req.id[2]
          IN  /\ i \in DOMAIN store
              /\ store[i].status = ACTIVE /\ store'[i].status = DISCARDED
              /\ store'[i].updatedAt >= store[i].updatedAt
              /\ store'[i] = [store[i] EXCEPT !.status = DISCARDED,
                                              !.updatedAt = store'[i].updatedAt]
              /\ \A j \in DOMAIN store : j # i => store'[j] = store[j]
              /\ DOMAIN store' = DOMAIN store]_vars

\* C19 witness: a soft delete is answered with success for an entry created at an
\* earlier time, while the store holds another entry that is ACTIVE
C19_Witness ==
  /\ Answered("DELETE") /\ last[1].res = DeleteSuccess
  /\ store[last[1].req.id[2]].updatedAt > store[last[1].req.id[2]].createdAt
  /\ \E j \in DOMAIN store : j # last[1].req.id[2] /\ store[j].status = ACTIVE

\* a request resumes from its store call and is answered in this step
StoreStep ==
  /\ last = <<>> /\ last' # <<>>
  /\ last'[1].req \in InFlight
  /\ reqs' = reqs (-) SetToBag({last'[1].req})

\* C20: the entries of an owner and the lists the owner gets depend on no other
\* owner's requests. A step that is not the store call of a request leaves the
\* store as it was; the store call of a request of owner u leaves the entries of
\* every other owner as they were; a list answered to u is a list of the ACTIVE
\* entries among the entries of u alone; the answer and effect of a delete of u
\* are those the same delete has on the entries of u alone; and a create of u
\* adds its entry to the entries of u and changes none of them. So two runs that
\* differ only in the requests of another owner take the entries of u through the
\* same values (ids aside) and give u the same lists.
C20_OwnerNonInterference ==
  [][IF ~StoreStep THEN store' = store
     ELSE LET q == last'[1].req
              u == CallerOf(q)
              res == last'[1].res
          IN  /\ store' # store =>
                   \A v \in Users \ {u} : OwnPart(store', v) = OwnPart(store, v)
              /\ q.method = "GET" =>
                   /\ res.items \in FindSorted(OwnPart(store, u), [status |-> ACTIVE])
                   /\ store' = store
              /\ q.method = "DELETE" =>
                   LET own == findOneAndUpdate(OwnPart(store, u),
                                               [_id |-> q.id[2], status |-> ACTIVE],
                                               DISCARDED, now)
                   IN  /\ res = DeleteResponse(own.docs)
                       /\ OwnPart(store', u) = own.store
              /\ q.method = "POST" =>
                   /\ \A i \in DOMAIN OwnPart(store, u) : store'[i] = store[i]
                   /\ DOMAIN OwnPart(store', u) =
                        DOMAIN OwnPart(store, u) \cup {res.items[1]._id}]_vars

\* C20 witness: a non-empty list is returned to an owner while the store holds an
\* entry of another owner that this other owner created and then discarded
C20_Witness ==
  /\ ListAnswered /\ ListedItems # {}
  /\ \E j \in DOMAIN store :
       /\ store[j].userId # CallerOf(last[1].req)
       /\ store[j].status = DISCARDED /\ okCount[j] = 1

(* ----------------- the ordering of the pantry page ---------------------- *)

\* the items of the pool by their ids
ItemOf(id) == CHOOSE i \in ItemPool : i._id = id

\* the number of times an item occurs in a sequence
Occurrences(s, i) == Cardinality({k \in 1..Len(s) : s[k] = i})

\* the position of an item in a sequence it occurs in
Pos(s, i) == CHOOSE k \in 1..Len(s) : s[k] = i

\* the two groups, with whether the group is the one with dates
BothGroups == {<<groups.withDate, TRUE>>, <<groups.noDate, FALSE>>}

\* C21: every item of the fetched list is in exactly one of the two groups,
\* once: in the group with dates when it has a date on the package and in the
\* other group when it has none, whatever the sort option and whatever its
\* date label type
C21_Partition ==
  state.status = "ready" =>
    /\ Len(groups.withDate) + Len(groups.noDate) = Len(state.items)
    /\ \A k \in 1..Len(state.items) :
         LET i == state.items[k]
         IN  IF i.dateOnPackage # Undefined
             THEN Occurrences(groups.withDate, i) = 1 /\ Occurrences(groups.noDate, i) = 0
             ELSE Occurrences(groups.withDate, i) = 0 /\ Occurrences(groups.noDate, i) = 1

\* a list of an item with a label and no date, an item with a date and no
\* label and an item with both, shown under a sort option by name
C21_Witness ==
  /\ state = Ready(<<ItemOf("e4"), ItemOf("e2"), ItemOf("e1")>>)
  /\ sortOption = "nameZA"
  /\ groups.noDate = <<ItemOf("e4")>>
  /\ Len(groups.withDate) = 2

\* the time value of the date on the package, and of the creation
PackageTime(i) == i.dateOnPackage[3]
CreatedTime(i) == i.createdAt[3]

FoldCase(name) == [k \in 1..Len(name[3]) |-> PrimaryWeight(name[3][k])]

RECURSIVE LexLeq(_, _)
\* s is before t or equal to it in the lexicographic order
LexLeq(s, t) ==
  \/ s = <<>>
  \/ /\ t # <<>>
     /\ \/ Head(s) < Head(t)
        \/ Head(s) = Head(t) /\ LexLeq(Tail(s), Tail(t))

Tie(option, hasDate, a, b) ==
  CASE option \in {"packageDateNewest", "packageDateOldest"} /\ hasDate ->
         PackageTime(a) = PackageTime(b)
    [] option \in {"nameAZ", "nameZA"} -> FoldCase(a.name) = FoldCase(b.name)
    [] OTHER -> CreatedTime(a) = CreatedTime(b)

\* C27: under every sort option and in both groups, items that tie are in the
\* order they have in the fetched list
C27_Stable ==
  state.status = "ready" =>
    \A p \in BothGroups :
      \A k, l \in 1..Len(p[1]) :
        (k < l /\ Tie(sortOption, p[2], p[1][k], p[1][l])) =>
          Pos(state.items, p[1][k]) < Pos(state.items, p[1][l])

\* "Apple" then "apple", names equal but for case, shown under the descending
\* option nameZA in the order of the list
C27_Witness ==
  /\ state = Ready(<<ItemOf("e3"), ItemOf("e1"), ItemOf("e2")>>)
  /\ sortOption = "nameZA"
  /\ groups.withDate = <<ItemOf("e1"), ItemOf("e3"), ItemOf("e2")>>

\* the lists that are the fetched list in another order
Reorderings(items) ==
  {s \in ItemLists :
     Len(s) = Len(items) /\ {s[k] : k \in 1..Len(s)} = {items[k] : k \in 1..Len(items)}}

\* C28 as stated: the fetched list in any other order gives the same two
\* ordered groups
C28_OrderIndependent ==
  state.status = "ready" =>
    \A s \in Reorderings(state.items) : Ordering(s, sortOption) = groups

\* a comes before b in a sequence both occur in
Before(s, a, b) == Pos(s, a) < Pos(s, b)

\* C28: the fetched list in any other order gives two groups of the same
\* items, with every two items that do not tie in the same order
C28_OrderIndependentUpToTies ==
  state.status = "ready" =>
    \A s \in Reorderings(state.items) :
      LET other == Ordering(s, sortOption)
      IN  \A p \in {<<groups.withDate, other.withDate, TRUE>>,
                    <<groups.noDate, other.noDate, FALSE>>} :
            /\ Len(p[1]) = Len(p[2])
            /\ {p[1][k] : k \in 1..Len(p[1])} = {p[2][k] : k \in 1..Len(p[2])}
            /\ \A k, l \in 1..Len(p[1]) :
                 (k # l /\ ~Tie(sortOption, p[3], p[1][k], p[1][l])) =>
                   (Before(p[1], p[1][k], p[1][l]) <=> Before(p[2], p[1][k], p[1][l]))

\* a list with items that tie and items that do not, in an order other than
\* the one shown
C28_Witness ==
  /\ state = Ready(<<ItemOf("e1"), ItemOf("e3"), ItemOf("e2")>>)
  /\ sortOption = "packageDateOldest"
  /\ groups.withDate = <<ItemOf("e3"), ItemOf("e2"), ItemOf("e1")>>

(* ------------------------ the loads of the pantry page ------------------ *)

\* every call of load() made so far has completed
AllLoadsCompleted == mounted /\ loads = <<>>

\* C29: once every call of load() has completed, the load state is ready or
\* error, not loading, and it is the one set from the response to the most
\* recent call
C29_FreshView ==
  AllLoadsCompleted =>
    /\ state.status \in {"ready", "error"}
    /\ latest # <<>> /\ state = latest[1]

(* ------------------------ the database connection ----------------------- *)

\* the calls of connectDB that have returned
Returned == {c \in 1..MaxCalls : calls[c].pc = "returned"}

\* C30: in any interleaving of calls of connectDB, mongoose.connect is called at
\* most once in the process, and every call that returns returns the one cached
\* connection
C30_SingleConnection ==
  /\ Len(promises) <= 1
  /\ \A c \in Returned : calls[c].result = mongooseConn.conn
  /\ \A c, d \in Returned : calls[c].result = calls[d].result

\* two calls made while the first attempt was pending have returned, a third
\* made after the connection was cached has returned too
C30_Witness ==
  /\ Len(promises) = 1
  /\ Cardinality({c \in Returned : calls[c].awaits = 1}) >= 2
  /\ \E c \in Returned : calls[c].awaits = 0

====
